---- MODULE Spec2Model ----
(***************************************************************************)
(* GhostMail bot (src/bot.py): the record store STATE, the user registry   *)
(* USERS, the mail.tm client with its refresh-and-retry wrapper, the       *)
(* force-join gate, the command handlers and the notifier poll loop, as a  *)
(* state machine.  Handlers are coroutines on one event loop: each action  *)
(* below is the synchronous block of code that runs when one awaited       *)
(* network call (mail.tm request, Telegram send) completes.                *)
(***************************************************************************)
EXTENDS Integers, Sequences, FiniteSets, TLC

\* ------------------------------------------------------------ fixed sets
Users == {1, 2}
CmdTasks == {"c1", "c2"}
Poller == "poll"
Tasks == CmdTasks \cup {Poller}
Kinds == {"start", "new", "copy", "inbox", "delete", "verify"}

NoId == 0                      \* a listed summary whose "id" is missing
NoBox == 0                     \* get_inbox(...) is None
NoRec == [address |-> 0, password |-> 0, token |-> 0, seen |-> {}]

\* ChatMember.status values, and "error" for get_chat_member raising
Statuses == {"creator", "administrator", "member", "restricted", "left", "kicked"}
QueryResults == Statuses \cup {"error"}

\* what a text / source field of a provider response can hold
TextVals == {"", "  ", "hi"}
NoBodyText == "(no body)"

VARIABLES
    State,      \* bot.py STATE dict: user id -> Inbox object (NoBox: no key)
    keys,       \* insertion order of the dict keys (dict order)
    heap,       \* the Inbox objects ever constructed, by reference
    USERS,      \* bot.py USERS[uid].get("verified"): "absent" | "yes" | "no"
    disk,       \* state.json as last written by save_state
    provider,   \* mail.tm accounts: the listing (newest first), tokens issued
    task,       \* the running coroutines: two webhook handlers and poll_loop
    delivered,  \* history: message id -> times its content was sent to the user
    lastCheck,  \* history: user id -> outcome of the last completed gate check
    probe,      \* history: the membership answers of the last gate check,
                \* recorded while probe.on
    left        \* what a run may still do: commands, ticks, arriving messages,
                \* 401 answers, other provider / transport faults

vars == <<State, keys, heap, USERS, disk, provider, task, delivered, lastCheck,
          probe, left>>

\* -------------------------------------------------------- pure helpers
\* str.strip() on the field values of TextVals
Strip(s) == IF s = "  " THEN "" ELSE s

\* is_member: the status test, with the except branch
is_member(r) == r \in {"member", "administrator", "creator"}

\* variant: one channel is enough
EitherJoined(r1, r2) == is_member(r1) \/ is_member(r2)

\* joined_both: CHANNEL1 and CHANNEL2
joined_both(r1, r2) == is_member(r1) /\ is_member(r2)

\* variant: the id is looked up in the file, not in the object
SeenOnDisk(box, mid) == \E u \in Users : State[u] = box /\ mid \in disk[u].seen

\* `mid in inbox.seen_message_ids`
IsSeen(box, mid) == mid \in heap[box].seen

\* variant: the file is left as it was
StaleSnapshot(S, h) == disk

\* save_state: STATE serialised with each object's current fields
Snapshot(S, h) == [u \in Users |-> IF S[u] = NoBox THEN NoRec ELSE h[S[u]]]

Range(s) == {s[i] : i \in 1..Len(s)}

RECURSIVE Remove(_, _)
Remove(s, x) ==
    IF s = <<>> THEN <<>>
    ELSE IF Head(s) = x THEN Remove(Tail(s), x)
    ELSE <<Head(s)>> \o Remove(Tail(s), x)

\* the for-loop `for m in msgs: did = m.get("id"); if did:` : first index
\* at or after i whose entry has an id, Len+1 when there is none
RECURSIVE NextDel(_, _)
NextDel(msgs, i) ==
    IF i > Len(msgs) THEN i
    ELSE IF msgs[i] # NoId THEN i
    ELSE NextDel(msgs, i + 1)

\* ---------------------------------------------------------- coroutines
\* the safe_get / safe_delete call a coroutine completed in its latest step
NoCall == [op |-> "none", att |-> 0, ref |-> 0, err1 |-> "none", final |-> "none",
           result |-> "none"]

\* what one notify_newest call of the current tick came to
NoRes == [outcome |-> "none", msgs |-> <<>>, dels |-> {}, at |-> "none", dup |-> FALSE]

IdleTask ==
    [pc |-> "idle", kind |-> "none", uid |-> 0, ok |-> FALSE, inbox |-> NoBox,
     addr |-> 0, made |-> 0, called |-> FALSE, msgs |-> <<>>, mid |-> NoId,
     dup |-> FALSE, src |-> "none", body |-> "none", stage |-> "none",
     err1 |-> "none", att |-> 0, ref |-> 0, di |-> 0, dels |-> {},
     outcome |-> "none", at |-> "none", last |-> NoCall,
     queue |-> <<>>, res |-> [u \in Users |-> NoRes]]

SleepingPoller == [IdleTask EXCEPT !.pc = "sleep", !.kind = "poll"]

\* ------------------------------------------------------- fault injection
FaultChoices == IF left.faults > 0 THEN {FALSE, TRUE} ELSE {FALSE}
Charge(f) == left' = [left EXCEPT !.faults = @ - (IF f THEN 1 ELSE 0)]

SetTask(t, r) == task' = [task EXCEPT ![t] = r]

\* the coroutine's frame as its next step finds it; `last` describes only
\* the step just taken
Cur(t) == [task[t] EXCEPT !.last = NoCall]

\* ------------------------------------------------------ how a call ends
\* a command handler returns (or its exception reaches the dispatcher)
Finish(r, outc) ==
    [r EXCEPT !.pc = "done", !.outcome = outc, !.stage = "none", !.att = 0, !.ref = 0,
              !.err1 = "none", !.di = 0, !.mid = NoId, !.src = "none", !.body = "none"]

\* variant: the verified flag is not looked at
HasRecord(u) == State[u] # NoBox

\* poll_loop line 575 and notify_newest lines 530-532: who gets a listing
Eligible(u) == USERS[u] = "yes" /\ State[u] # NoBox

RECURSIVE SkipTo(_)
SkipTo(q) ==
    IF q = <<>> THEN <<>>
    ELSE IF Eligible(Head(q)) THEN q
    ELSE SkipTo(Tail(q))

\* the for-loop of poll_loop moving on: the next uid that passes the verified
\* test and has an Inbox starts list_messages; none left ends the tick
PollNext(r) ==
    LET q == SkipTo(r.queue)
        clean == [r EXCEPT !.msgs = <<>>, !.mid = NoId, !.src = "none", !.dup = FALSE,
                           !.body = "none", !.err1 = "none", !.att = 0, !.ref = 0,
                           !.di = 0, !.dels = {}, !.at = "none", !.inbox = NoBox,
                           !.uid = 0, !.stage = "none"]
    IN  IF q = <<>>
        THEN [clean EXCEPT !.pc = "sleep", !.queue = <<>>, !.outcome = "TickDone"]
        ELSE [clean EXCEPT !.pc = "list", !.stage = "try1", !.uid = Head(q),
                           !.inbox = State[Head(q)], !.queue = Tail(q)]

Record(r, outc) ==
    [r EXCEPT !.res[r.uid] = [outcome |-> outc, msgs |-> r.msgs, dels |-> r.dels,
                              at |-> r.pc, dup |-> r.dup]]

\* notify_newest returns to the for-loop
PollReturn(r, outc) == PollNext(Record(r, outc))

\* variant: the exception leaves poll_loop and the task ends
LoopDies(r) ==
    [Record(r, "Error") EXCEPT !.pc = "dead", !.outcome = "TickAborted",
                               !.stage = "none"]

\* an exception leaves notify_newest: poll_loop's try encloses the for-loop,
\* so the except at line 578 ends the tick with the rest of the list unvisited
PollAbort(r) ==
    [Record(r, "Error") EXCEPT !.pc = "sleep", !.outcome = "TickAborted",
                               !.stage = "none"]

Return(r, outc) == IF r.kind = "poll" THEN PollReturn(r, outc) ELSE Finish(r, outc)
Raise(r) == IF r.kind = "poll" THEN PollAbort(r) ELSE Finish([r EXCEPT !.at = r.pc], "Error")

\* ---------------------------------------------------------- the gate
\* variant: a flag that, once true, stays true
StickyVerified(uid, ok) ==
    [USERS EXCEPT ![uid] = IF ok \/ USERS[uid] = "yes" THEN "yes" ELSE "no"]

\* upsert_user(update, verified=ok): info["verified"] = bool(verified)
upsert_user(uid, ok) == [USERS EXCEPT ![uid] = IF ok THEN "yes" ELSE "no"]

\* a webhook update arrives and its handler starts; handle_telegram awaits
\* process_update per request, so two handlers can be in flight at once
StartCmd(t, u, k) ==
    /\ t \in CmdTasks
    /\ task[t].pc \in {"idle", "done"}
    /\ t = "c2" => task["c1"].pc \notin {"idle", "done"}
    /\ left.cmds > 0
    /\ left' = [left EXCEPT !.cmds = @ - 1]
    /\ SetTask(t, [IdleTask EXCEPT !.pc = "gate", !.kind = k, !.uid = u])
    /\ UNCHANGED <<State, keys, heap, USERS, disk, provider, delivered, lastCheck,
                   probe>>

\* what a handler does once require_join has returned
AfterGate(r, ok) ==
    IF ~ok THEN Finish(r, "Gated")
    ELSE IF r.kind = "start" THEN Finish([r EXCEPT !.ok = TRUE], "Menu")
    ELSE IF r.kind = "verify" THEN Finish([r EXCEPT !.ok = TRUE], "Verified")
    ELSE [r EXCEPT !.ok = TRUE, !.pc = "lookup"]

\* require_join (and verify_callback's first lines): joined_both, then
\* upsert_user with the outcome, then the gate view or the handler's body.
\* r2 is "notasked" when `and` short-circuits on the first channel.
RequireJoin(t) ==
    LET r == Cur(t)
    IN  /\ r.pc = "gate"
        /\ \E r1 \in QueryResults :
             \E r2 \in (IF is_member(r1) THEN QueryResults ELSE {"notasked"}) :
                LET ok == joined_both(r1, r2)
                IN  /\ USERS' = upsert_user(r.uid, ok)
                    /\ lastCheck' = [lastCheck EXCEPT ![r.uid] =
                                        IF ok THEN "yes" ELSE "no"]
                    /\ probe' = IF probe.on
                                THEN [on |-> TRUE, uid |-> r.uid, r1 |-> r1, r2 |-> r2]
                                ELSE probe
                    /\ SetTask(t, AfterGate(r, ok))
        /\ UNCHANGED <<State, keys, heap, disk, provider, delivered, left>>

\* ------------------------------------------------- handlers after the gate
\* copy_email_cmd lines 357-365
CopyLookup(t) ==
    LET r == Cur(t)
    IN  /\ r.pc = "lookup" /\ r.kind = "copy"
        /\ SetTask(t, IF State[r.uid] = NoBox THEN Finish(r, "NoMailbox")
                      ELSE Finish([r EXCEPT !.inbox = State[r.uid]], "Address"))
        /\ UNCHANGED <<State, keys, heap, USERS, disk, provider, delivered, lastCheck,
                       probe, left>>

\* delete_cmd lines 442-450: membership test, pop, save_state, confirmation
DeleteLookup(t) ==
    LET r == Cur(t)
        S2 == [State EXCEPT ![r.uid] = NoBox]
    IN  /\ r.pc = "lookup" /\ r.kind = "delete"
        /\ IF State[r.uid] = NoBox
           THEN /\ SetTask(t, Finish(r, "NoMailbox"))
                /\ UNCHANGED <<State, keys, disk>>
           ELSE /\ State' = S2
                /\ keys' = Remove(keys, r.uid)
                /\ disk' = Snapshot(S2, heap)
                /\ SetTask(t, Finish(r, "Deleted"))
        /\ UNCHANGED <<heap, USERS, provider, delivered, lastCheck, probe, left>>

\* variant: any user's record counts
AnyInbox(uid) == \E u \in Users : State[u] # NoBox

\* new_cmd line 335: `if get_inbox(user_id)`
HasInbox(uid) == State[uid] # NoBox

\* new_cmd lines 335-341: the existing-record test, then the "Creating" send
NewLookup(t) ==
    LET r == Cur(t)
    IN  /\ r.pc = "lookup" /\ r.kind = "new"
        /\ IF HasInbox(r.uid)
           THEN /\ SetTask(t, Finish(r, "AlreadyExists"))
                /\ UNCHANGED left
           ELSE \E f \in FaultChoices :
                  /\ Charge(f)
                  /\ SetTask(t, IF f THEN Raise(r) ELSE [r EXCEPT !.pc = "domains"])
        /\ UNCHANGED <<State, keys, heap, USERS, disk, provider, delivered, lastCheck,
                       probe>>

\* variant: a failed domain lookup is made once more
ProvisionRetried(r) == IF r.pc = "domains" /\ r.made = 1 THEN r ELSE Raise(r)

\* a request of create_inbox fails: mailtm_get / mailtm_post raise, neither
\* create_inbox nor new_cmd catches, so the handler ends before line 346
ProvisionFailed(r) == Raise(r)

\* create_inbox lines 232-236: GET /domains; an HTTP error or an empty list raises
CreateDomains(t) ==
    LET r == [Cur(t) EXCEPT !.made = @ + 1, !.called = TRUE]
    IN  /\ r.pc = "domains"
        /\ \E f \in FaultChoices :
             /\ Charge(f)
             /\ SetTask(t, IF f THEN ProvisionFailed(r) ELSE [r EXCEPT !.pc = "accounts"])
        /\ UNCHANGED <<State, keys, heap, USERS, disk, provider, delivered, lastCheck,
                       probe>>

\* create_inbox lines 238-242: POST /accounts creates the provider account
CreateAccount(t) ==
    LET r == [Cur(t) EXCEPT !.made = @ + 1]
    IN  /\ r.pc = "accounts"
        /\ \E f \in FaultChoices :
             /\ Charge(f)
             /\ IF f
                THEN /\ SetTask(t, ProvisionFailed(r))
                     /\ UNCHANGED provider
                ELSE /\ provider' = Append(provider, [msgs |-> <<>>, issued |-> 0])
                     /\ SetTask(t, [r EXCEPT !.pc = "token", !.addr = Len(provider) + 1])
        /\ UNCHANGED <<State, keys, heap, USERS, disk, delivered, lastCheck, probe>>

\* create_inbox lines 243-244 and new_cmd lines 346-351: POST /token, the
\* Inbox object, STATE[uid] = inbox, save_state, the confirmation
CreateToken(t) ==
    LET r == [Cur(t) EXCEPT !.made = @ + 1]
        box == Len(heap) + 1
        tok == provider[r.addr].issued + 1
        h2 == Append(heap, [address |-> r.addr, password |-> r.addr, token |-> tok,
                            seen |-> {}])
        S2 == [State EXCEPT ![r.uid] = box]
    IN  /\ r.pc = "token"
        /\ \E f \in FaultChoices :
             /\ Charge(f)
             /\ IF f
                THEN /\ SetTask(t, ProvisionFailed(r))
                     /\ UNCHANGED <<State, keys, heap, disk, provider>>
                ELSE /\ provider' = [provider EXCEPT ![r.addr].issued = tok]
                     /\ heap' = h2
                     /\ State' = S2
                     /\ keys' = IF r.uid \in Range(keys) THEN keys ELSE Append(keys, r.uid)
                     /\ disk' = Snapshot(S2, h2)
                     /\ SetTask(t, Finish([r EXCEPT !.inbox = box], "Created"))
        /\ UNCHANGED <<USERS, delivered, lastCheck, probe>>

\* ------------------------------------------------- the mail.tm client
\* a coroutine enters safe_get / safe_delete
StartCall(r, op) ==
    [r EXCEPT !.pc = op, !.stage = "try1", !.att = 0, !.ref = 0, !.err1 = "none"]

\* safe_get / safe_delete return or raise; final: how the last request ended
Close(r, final, result) ==
    [r EXCEPT !.last = [op |-> r.pc, att |-> r.att, ref |-> r.ref, err1 |-> r.err1,
                        final |-> final, result |-> result]]

\* variant: every failed attempt is followed by a refresh and a retry
RetryAgain(stage, res) == IF res = "ok" THEN "done" ELSE "refresh"

\* the try/except of safe_get and safe_delete (lines 217-229): where control
\* goes when an attempt made in `stage` ends with `res`
SafeNext(stage, res) ==
    IF res = "ok" THEN "done"
    ELSE IF stage = "try1" THEN "refresh"
    ELSE "raise"

\* what mail.tm answers to one authenticated request: 404 ("gone") for a
\* message that is no longer there, else success or, while the run's budgets
\* last, 401 for an expired token ("auth") or a network / 5xx failure ("other")
AttemptResults(r) ==
    LET listing == provider[heap[r.inbox].address].msgs
        target == IF r.pc = "delete" THEN r.msgs[r.di] ELSE r.mid
    IN  IF r.pc # "list" /\ target \notin Range(listing) THEN {"gone"}
        ELSE {"ok"} \cup (IF left.auth > 0 THEN {"auth"} ELSE {})
                    \cup (IF left.faults > 0 THEN {"other"} ELSE {})

\* the budgets after an answer `res` and, with f, one more transport fault
Spend(res, f) ==
    [left EXCEPT !.auth = @ - (IF res = "auth" THEN 1 ELSE 0),
                 !.faults = @ - (IF res = "other" THEN 1 ELSE 0) - (IF f THEN 1 ELSE 0)]

\* one request of a wrapper call has been answered
Attempted(r) == [r EXCEPT !.att = r.att + 1, !.called = TRUE]

\* the except branch is entered: refresh_token comes next
ToRefresh(r, res) == [r EXCEPT !.stage = "refresh", !.err1 = res]

\* inbox_cmd line 372-376 after the gate: get_inbox, then list_messages
InboxLookup(t) ==
    LET r == Cur(t)
    IN  /\ r.pc = "lookup" /\ r.kind = "inbox"
        /\ SetTask(t, IF State[r.uid] = NoBox THEN Finish(r, "NoMailbox")
                      ELSE StartCall([r EXCEPT !.inbox = State[r.uid]], "list"))
        /\ UNCHANGED <<State, keys, heap, USERS, disk, provider, delivered, lastCheck,
                       probe, left>>

\* the deletion loop (lines 426-432, 562-568) moving to its next entry with an
\* id; past the last one the coroutine leaves the session block and returns
DelDone(r) == NextDel(r.msgs, r.di + 1) > Len(r.msgs)

\* variant: a deletion that failed leaves the function
DeleteRaises(r) ==
    IF r.last.result = "fail" THEN Raise(r)
    ELSE IF DelDone(r) THEN Return(r, r.outcome)
    ELSE StartCall([r EXCEPT !.di = NextDel(r.msgs, r.di + 1)], "delete")

AfterDelete(r) ==
    IF DelDone(r) THEN Return(r, r.outcome)
    ELSE StartCall([r EXCEPT !.di = NextDel(r.msgs, r.di + 1)], "delete")

\* notify_newest line 539-540: a seen newest id returns at once
PollSeen(r) == Return(r, "NoNewMail")

\* inbox_cmd lines 391-392: "No new email yet.", then on to the deletion loop
CmdSeen(r, sendFails) ==
    IF sendFails THEN Raise([r EXCEPT !.pc = "notify"])
    ELSE StartCall([r EXCEPT !.outcome = "NoNewMail", !.di = 1], "delete")

\* variant: a listing that is not empty is taken to hold nothing new
MissNewest(r, listing, sendFails) ==
    Return([r EXCEPT !.msgs = listing], IF listing = <<>> THEN "Empty" ELSE "NoNewMail")

\* inbox_cmd lines 381-394 and notify_newest lines 535-542: what follows a
\* listing.  sendFails: the "No new email yet." send_clean raises.
AfterList(r, listing, sendFails) ==
    LET mid == IF listing = <<>> THEN NoId ELSE Head(listing)
        r1 == [r EXCEPT !.msgs = listing, !.mid = mid,
                        !.dup = mid # NoId /\ delivered[mid] > 0]
    IN  IF listing = <<>> THEN Return(r1, "Empty")
        ELSE IF mid = NoId THEN Return(r1, "Unreadable")
        ELSE IF IsSeen(r.inbox, mid)
             THEN IF r.kind = "poll" THEN PollSeen(r1) ELSE CmdSeen(r1, sendFails)
        ELSE StartCall(r1, "get")

\* the body when the structured text is blank: inbox_cmd lines 402-406
BodyCmd(src, failed) == IF failed THEN NoBodyText ELSE Strip(src)

\* the same in notify_newest, line 551 (a failed fetch raises instead)
BodyPoll(src) == IF Strip(src) = "" THEN NoBodyText ELSE Strip(src)

\* list_messages: GET /messages through safe_get
ListAttempt(t) ==
    LET r == Cur(t)
        listing == provider[heap[r.inbox].address].msgs
        r1 == Attempted(r)
    IN  /\ r.pc = "list" /\ r.stage \in {"try1", "try2"}
        /\ \E res \in AttemptResults(r), f \in FaultChoices :
             LET nxt == SafeNext(r.stage, res)
             IN  /\ f => /\ nxt = "done" /\ r.kind = "inbox" /\ listing # <<>>
                         /\ Head(listing) # NoId /\ IsSeen(r.inbox, Head(listing))
                 /\ left' = Spend(res, f)
                 /\ SetTask(t, IF nxt = "done"
                               THEN AfterList(Close(r1, res, "ok"), listing, f)
                               ELSE IF nxt = "refresh" THEN ToRefresh(r1, res)
                               ELSE Raise(Close(r1, res, "fail")))
        /\ UNCHANGED <<State, keys, heap, USERS, disk, provider, delivered, lastCheck,
                       probe>>

\* get_message: GET /messages/{id} through safe_get, then lines 395-402 / 543-550
GetAttempt(t) ==
    LET r == Cur(t)
        r1 == Attempted(r)
    IN  /\ r.pc = "get" /\ r.stage \in {"try1", "try2"}
        /\ \E res \in AttemptResults(r), txt \in TextVals :
             LET nxt == SafeNext(r.stage, res)
                 got == [Close(r1, res, "ok") EXCEPT !.body = Strip(txt)]
             IN  /\ nxt # "done" => txt = ""
                 /\ left' = Spend(res, FALSE)
                 /\ SetTask(t, IF nxt = "done"
                               THEN IF got.body # "" THEN [got EXCEPT !.pc = "send",
                                                                      !.stage = "none"]
                                    ELSE StartCall(got, "source")
                               ELSE IF nxt = "refresh" THEN ToRefresh(r1, res)
                               ELSE Raise(Close(r1, res, "fail")))
        /\ UNCHANGED <<State, keys, heap, USERS, disk, provider, delivered, lastCheck,
                       probe>>

\* variant: a failed source fetch goes on to the deletion loop
SourceFailedSweeps(r) == StartCall([r EXCEPT !.src = "failed", !.di = 1], "delete")

\* a failed get_message_source: caught at line 405 in inbox_cmd, not caught
\* in notify_newest
SourceFailed(r) ==
    IF r.kind = "poll" THEN Raise([r EXCEPT !.src = "failed"])
    ELSE [r EXCEPT !.pc = "send", !.stage = "none", !.src = "failed",
                   !.body = BodyCmd("", TRUE)]

\* get_message_source: GET /sources/{id} through safe_get
SourceAttempt(t) ==
    LET r == Cur(t)
        r1 == Attempted(r)
    IN  /\ r.pc = "source" /\ r.stage \in {"try1", "try2"}
        /\ \E res \in AttemptResults(r), src \in TextVals :
             LET nxt == SafeNext(r.stage, res)
             IN  /\ nxt # "done" => src = ""
                 /\ left' = Spend(res, FALSE)
                 /\ SetTask(t, IF nxt = "done"
                               THEN [Close(r1, res, "ok") EXCEPT
                                        !.pc = "send", !.stage = "none",
                                        !.src = Strip(src),
                                        !.body = IF r.kind = "poll" THEN BodyPoll(src)
                                                 ELSE BodyCmd(src, FALSE)]
                               ELSE IF nxt = "refresh" THEN ToRefresh(r1, res)
                               ELSE SourceFailed(Close(r1, res, "fail")))
        /\ UNCHANGED <<State, keys, heap, USERS, disk, provider, delivered, lastCheck,
                       probe>>

\* variant: the id is marked before the send is known to have worked
MarkBeforeSend(seen, mid, failed) == seen \cup {mid}

\* lines 414-423, 559-560: seen_message_ids.add(mid) is the statement after
\* the awaited send_clean, which skips it by raising
SeenAfterSend(seen, mid, failed) == IF failed THEN seen ELSE seen \cup {mid}

\* send_clean of the rendered message, then seen_message_ids.add(mid)
\* (lines 414-423, 559-560)
Deliver(t) ==
    LET r == Cur(t)
    IN  /\ r.pc = "send"
        /\ \E f \in FaultChoices :
             /\ Charge(f)
             /\ heap' = [heap EXCEPT ![r.inbox].seen = SeenAfterSend(@, r.mid, f)]
             /\ IF f
                THEN /\ SetTask(t, Raise(r))
                     /\ UNCHANGED delivered
                ELSE /\ delivered' = [delivered EXCEPT ![r.mid] = @ + 1]
                     /\ SetTask(t, StartCall([r EXCEPT !.outcome = "NewMail", !.di = 1],
                                             "delete"))
        /\ UNCHANGED <<State, keys, USERS, disk, provider, lastCheck, probe>>

\* one safe_delete of the deletion loop; a failure after the retry is
\* swallowed by the loop's except (lines 431, 567); after the loop, save_state
DeleteAttempt(t) ==
    LET r == Cur(t)
        a == heap[r.inbox].address
        did == r.msgs[r.di]
        r1 == [Attempted(r) EXCEPT !.dels = r.dels \cup {did}]
    IN  /\ r.pc = "delete" /\ r.stage \in {"try1", "try2"}
        /\ \E res \in AttemptResults(r) :
             LET nxt == SafeNext(r.stage, res)
             IN  /\ left' = Spend(res, FALSE)
                 /\ provider' = IF res = "ok"
                                THEN [provider EXCEPT ![a].msgs = Remove(@, did)]
                                ELSE provider
                 /\ SetTask(t, IF nxt = "refresh" THEN ToRefresh(r1, res)
                               ELSE AfterDelete(Close(r1, res, IF nxt = "done" THEN "ok"
                                                               ELSE "fail")))
                 /\ disk' = IF nxt # "refresh" /\ DelDone(r) THEN Snapshot(State, heap)
                            ELSE disk
        /\ UNCHANGED <<State, keys, heap, USERS, delivered, lastCheck, probe>>

\* variant: the re-authentication builds the record anew
ReauthFresh(box, tok) == [box EXCEPT !.token = tok, !.seen = {}]

\* refresh_token line 215: inbox.token = tok["token"]
Reauth(box, tok) == [box EXCEPT !.token = tok]

\* refresh_token (lines 213-215) in the except branch of safe_get / safe_delete:
\* POST /token with the record's address and password; a failure raises out
\* of the wrapper without a retry
Refresh(t) ==
    LET r == Cur(t)
        a == heap[r.inbox].address
        tok == provider[a].issued + 1
        r1 == [r EXCEPT !.ref = r.ref + 1]
        failed == Close(r1, "refresh", "fail")
    IN  /\ r.stage = "refresh"
        /\ \E f \in FaultChoices :
             /\ Charge(f)
             /\ IF f
                THEN /\ SetTask(t, IF r.pc = "delete" THEN AfterDelete(failed)
                                   ELSE IF r.pc = "source" THEN SourceFailed(failed)
                                   ELSE Raise(failed))
                     /\ disk' = IF r.pc = "delete" /\ DelDone(r)
                                THEN Snapshot(State, heap) ELSE disk
                     /\ UNCHANGED <<heap, provider>>
                ELSE /\ provider' = [provider EXCEPT ![a].issued = tok]
                     /\ heap' = [heap EXCEPT ![r.inbox] = Reauth(@, tok)]
                     /\ SetTask(t, [r1 EXCEPT !.stage = "try2"])
                     /\ UNCHANGED disk
        /\ UNCHANGED <<State, keys, USERS, delivered, lastCheck, probe>>

\* ------------------------------------------------------------ poll_loop
\* the sleep ends: list(STATE.keys()) is taken and the for-loop starts
Tick ==
    LET r == Cur(Poller)
    IN  /\ r.pc = "sleep"
        /\ left.ticks > 0
        /\ left' = [left EXCEPT !.ticks = @ - 1]
        /\ SetTask(Poller, PollNext([r EXCEPT !.queue = keys, !.outcome = "none",
                                              !.res = [u \in Users |-> NoRes]]))
        /\ UNCHANGED <<State, keys, heap, USERS, disk, provider, delivered, lastCheck,
                       probe>>

\* ---------------------------------------------------------- environment
\* a message reaches a mailbox; the listing is newest first.  A summary
\* without an "id" counts as a provider fault.
Arrive(a) ==
    /\ a \in 1..Len(provider)
    /\ left.msgs > 0
    /\ \E noid \in FaultChoices :
         /\ left' = [left EXCEPT !.msgs = @ - 1, !.faults = @ - (IF noid THEN 1 ELSE 0)]
         /\ provider' = [provider EXCEPT ![a].msgs =
                            <<IF noid THEN NoId ELSE Len(delivered) + 1>> \o @]
         /\ delivered' = IF noid THEN delivered ELSE Append(delivered, 0)
    /\ UNCHANGED <<State, keys, heap, USERS, disk, task, lastCheck, probe>>

\* ------------------------------------------------------- specifications
NoProbe == [on |-> FALSE, uid |-> 0, r1 |-> "none", r2 |-> "none"]

\* The whole bot from an empty store.
MaxCmds == 3      \* user commands handled in one run
MaxTicks == 1     \* poller ticks in one run
MaxMsgs == 1      \* messages that arrive at the provider in one run
MaxAuth == 1      \* requests answered 401 in one run
MaxFaults == 1    \* other provider / transport faults injected in one run

Init ==
    /\ State = [u \in Users |-> NoBox]
    /\ keys = <<>>
    /\ heap = <<>>
    /\ USERS = [u \in Users |-> "absent"]
    /\ disk = [u \in Users |-> NoRec]
    /\ provider = <<>>
    /\ task = [t \in Tasks |-> IF t = Poller THEN SleepingPoller ELSE IdleTask]
    /\ delivered = <<>>
    /\ lastCheck = [u \in Users |-> "absent"]
    /\ probe = NoProbe
    /\ left = [cmds |-> MaxCmds, ticks |-> MaxTicks, msgs |-> MaxMsgs,
               auth |-> MaxAuth, faults |-> MaxFaults]

Next ==
    \/ \E t \in CmdTasks, u \in Users, k \in Kinds : StartCmd(t, u, k)
    \/ \E t \in CmdTasks : RequireJoin(t)
    \/ \E t \in CmdTasks : CopyLookup(t)
    \/ \E t \in CmdTasks : DeleteLookup(t)
    \/ \E t \in CmdTasks : NewLookup(t)
    \/ \E t \in CmdTasks : CreateDomains(t)
    \/ \E t \in CmdTasks : CreateAccount(t)
    \/ \E t \in CmdTasks : CreateToken(t)
    \/ \E t \in CmdTasks : InboxLookup(t)
    \/ \E t \in Tasks : ListAttempt(t)
    \/ \E t \in Tasks : GetAttempt(t)
    \/ \E t \in Tasks : SourceAttempt(t)
    \/ \E t \in Tasks : Deliver(t)
    \/ \E t \in Tasks : DeleteAttempt(t)
    \/ \E t \in Tasks : Refresh(t)
    \/ Tick
    \/ \E a \in 1..Len(provider) : Arrive(a)

Spec == Init /\ [][Next]_vars

\* The fetch path on one mailbox.  FetchInit is the state after user 1 has
\* run /new: the record, the account and its first token exist and the gate
\* has passed.  From there /inbox commands, poller ticks, arriving mail and
\* provider faults interleave.
FetchCmds == 1
FetchTicks == 2
FetchMsgs == 1
FetchFaults == 2

FetchUser == CHOOSE u \in Users : \A v \in Users : u <= v
FirstBox == [address |-> 1, password |-> 1, token |-> 1, seen |-> {}]

OneMailbox ==
    /\ State = [u \in Users |-> IF u = FetchUser THEN 1 ELSE NoBox]
    /\ keys = <<FetchUser>>
    /\ heap = <<FirstBox>>
    /\ USERS = [u \in Users |-> IF u = FetchUser THEN "yes" ELSE "absent"]
    /\ disk = [u \in Users |-> IF u = FetchUser THEN FirstBox ELSE NoRec]
    /\ provider = <<[msgs |-> <<>>, issued |-> 1]>>
    /\ task = [t \in Tasks |-> IF t = Poller THEN SleepingPoller ELSE IdleTask]
    /\ delivered = <<>>
    /\ lastCheck = [u \in Users |-> IF u = FetchUser THEN "yes" ELSE "absent"]
    /\ probe = NoProbe

\* every failure is of the generic kind here: safe_get and safe_delete do not
\* look at the kind, SpecClient below tells the kinds apart
FetchInit ==
    /\ OneMailbox
    /\ left = [cmds |-> FetchCmds, ticks |-> FetchTicks, msgs |-> FetchMsgs,
               auth |-> 0, faults |-> FetchFaults]

FetchTasks == {"c1", Poller}

FetchNext ==
    \/ StartCmd("c1", FetchUser, "inbox")
    \/ RequireJoin("c1")
    \/ InboxLookup("c1")
    \/ \E t \in FetchTasks : ListAttempt(t)
    \/ \E t \in FetchTasks : GetAttempt(t)
    \/ \E t \in FetchTasks : SourceAttempt(t)
    \/ \E t \in FetchTasks : Deliver(t)
    \/ \E t \in FetchTasks : DeleteAttempt(t)
    \/ \E t \in FetchTasks : Refresh(t)
    \/ Tick
    \/ Arrive(1)

SpecFetch == FetchInit /\ [][FetchNext]_vars

\* C1: a fetch that lists a newest id whose content has already been delivered
\* ends as NoNewMail (or fails sending that notice) and never goes on to fetch
\* or send the message again: of the fetches that run one after another on an
\* unchanged newest id only the first is NewMail.  Every delivered id is in
\* the record's seen set.
DedupIdempotence ==
    /\ \A t \in FetchTasks :
         task[t].dup =>
            /\ task[t].pc \in {"delete", "done"}
            /\ task[t].outcome \in {"NoNewMail", "Error"}
            /\ task[t].outcome = "Error" => task[t].at = "notify"
    /\ \A u \in Users : task[Poller].res[u].dup => task[Poller].res[u].outcome = "NoNewMail"
    /\ \A m \in DOMAIN delivered : delivered[m] > 0 => m \in heap[State[FetchUser]].seen

\* no command ever ran, the first tick delivered the message and could not
\* delete it, and a later tick found the same newest id
SecondTickNoNewMail ==
    /\ left.cmds = FetchCmds
    /\ task[Poller].res[FetchUser].dup
    /\ task[Poller].res[FetchUser].outcome = "NoNewMail"
    /\ \E m \in DOMAIN delivered : delivered[m] = 1

\* C2: whatever the interleaving of an /inbox command and a poller tick for
\* one user, the content of a message id is sent to the user at most once
NoDoubleDelivery == \A m \in DOMAIN delivered : delivered[m] <= 1

\* C6: when the structured text is blank the body is the raw source if that
\* is not empty, and "(no body)" when it is empty or its fetch failed; the
\* fetch does not raise over the raw source
BodyFallback ==
    /\ \A t \in FetchTasks :
         (task[t].pc = "send" /\ task[t].src # "none") =>
            task[t].body = IF task[t].src \in {"", "failed"} THEN NoBodyText
                           ELSE task[t].src
    /\ \A t \in FetchTasks : task[t].outcome = "Error" => task[t].at # "source"
    /\ \A u \in Users : task[Poller].res[u].outcome = "Error"
                            => task[Poller].res[u].at # "source"

\* C10: a fetch that listed successfully and came to NewMail, NoNewMail or
\* Empty has requested the deletion of every message of that listing
Listed(outc) == outc \in {"NewMail", "NoNewMail", "Empty"}

DeleteAfterListing ==
    /\ (task["c1"].pc = "done" /\ Listed(task["c1"].outcome))
          => Range(task["c1"].msgs) \ {NoId} \subseteq task["c1"].dels
    /\ \A u \in Users :
          Listed(task[Poller].res[u].outcome)
             => Range(task[Poller].res[u].msgs) \ {NoId} \subseteq task[Poller].res[u].dels

\* The client wrapper under both kinds of failure: one /inbox handler on the
\* same mailbox, requests answered 401 and requests failing otherwise.
ClientCmds == 2
ClientMsgs == 1
ClientAuth == 1
ClientFaults == 2

ClientInit ==
    /\ OneMailbox
    /\ left = [cmds |-> ClientCmds, ticks |-> 0, msgs |-> ClientMsgs,
               auth |-> ClientAuth, faults |-> ClientFaults]

ClientNext ==
    \/ StartCmd("c1", FetchUser, "inbox")
    \/ RequireJoin("c1")
    \/ InboxLookup("c1")
    \/ ListAttempt("c1")
    \/ GetAttempt("c1")
    \/ SourceAttempt("c1")
    \/ Deliver("c1")
    \/ DeleteAttempt("c1")
    \/ Refresh("c1")
    \/ Arrive(1)

SpecClient == ClientInit /\ [][ClientNext]_vars

\* C4: a safe_get / safe_delete call makes at most two attempts and at most
\* one refresh_token; a first attempt that fails with 401 followed by a retry
\* that succeeds completes the call after exactly one refresh and one retry;
\* a retry that fails too ends the call as a failure, after one refresh and
\* with no third attempt
AuthRetryBound ==
    LET r == task["c1"]
        c == r.last
    IN  /\ r.att <= 2 /\ r.ref <= 1
        /\ c.op # "none" =>
              /\ c.att \in 1..2 /\ c.ref <= 1
              /\ (c.err1 = "auth" /\ c.final = "ok")
                    => c.result = "ok" /\ c.att = 2 /\ c.ref = 1
              /\ (c.err1 = "auth" /\ c.final \notin {"ok", "refresh"})
                    => c.result = "fail" /\ c.att = 2 /\ c.ref = 1
              /\ c.att = 2 => c.ref = 1 /\ c.err1 # "none"
              /\ c.result = "ok" <=> c.final = "ok"

\* a call whose first attempt got 401 and whose retry succeeded
AuthThenOk ==
    /\ task["c1"].last.err1 = "auth"
    /\ task["c1"].last.final = "ok"
    /\ task["c1"].last.att = 2

\* C5: only a first attempt that failed with 401 is followed by
\* refresh_token and a retry; any other failure ends the call at once
OnlyAuthRefreshes ==
    /\ task["c1"].stage \in {"refresh", "try2"} => task["c1"].err1 = "auth"
    /\ task["c1"].last.err1 \in {"other", "gone"}
          => /\ task["c1"].last.result = "fail"
             /\ task["c1"].last.att = 1
             /\ task["c1"].last.ref = 0

\* The gate alone: /start and the Verify button for two users, with the
\* membership answers of each check recorded in probe.
GateCmds == 3

GateInit ==
    /\ State = [u \in Users |-> NoBox]
    /\ keys = <<>>
    /\ heap = <<>>
    /\ USERS = [u \in Users |-> "absent"]
    /\ disk = [u \in Users |-> NoRec]
    /\ provider = <<>>
    /\ task = [t \in Tasks |-> IF t = Poller THEN SleepingPoller ELSE IdleTask]
    /\ delivered = <<>>
    /\ lastCheck = [u \in Users |-> "absent"]
    /\ probe = [NoProbe EXCEPT !.on = TRUE]
    /\ left = [cmds |-> GateCmds, ticks |-> 0, msgs |-> 0, auth |-> 0, faults |-> 0]

GateNext ==
    \/ \E t \in CmdTasks, u \in Users, k \in {"start", "verify"} : StartCmd(t, u, k)
    \/ \E t \in CmdTasks : RequireJoin(t)

SpecGate == GateInit /\ [][GateNext]_vars

Active == {"member", "administrator", "creator"}

\* C7: the check is true only when both channels answered member,
\* administrator or creator; an erroring query counts like a non-member
\* answer, so the check is false whenever either query errors or reports
\* another status
GateFailClosed ==
    probe.uid # 0 =>
       /\ USERS[probe.uid] = "yes" <=> (probe.r1 \in Active /\ probe.r2 \in Active)
       /\ USERS[probe.uid] = "no" <=> (probe.r1 \notin Active \/ probe.r2 \notin Active)

\* a check whose first channel answered member and whose second query raised
SecondQueryErrors ==
    /\ probe.r1 = "member" /\ probe.r2 = "error"
    /\ USERS[probe.uid] = "no"
    /\ \E t \in CmdTasks : task[t].uid = probe.uid /\ task[t].outcome = "Gated"

\* The command handlers from an empty store: two users, every command
\* kind, one handler at a time, mail arriving, no poller.
CmdCmds == 3
CmdMsgs == 1
CmdFaults == 1

CmdInit ==
    /\ State = [u \in Users |-> NoBox]
    /\ keys = <<>>
    /\ heap = <<>>
    /\ USERS = [u \in Users |-> "absent"]
    /\ disk = [u \in Users |-> NoRec]
    /\ provider = <<>>
    /\ task = [t \in Tasks |-> IF t = Poller THEN SleepingPoller ELSE IdleTask]
    /\ delivered = <<>>
    /\ lastCheck = [u \in Users |-> "absent"]
    /\ probe = NoProbe
    /\ left = [cmds |-> CmdCmds, ticks |-> 0, msgs |-> CmdMsgs, auth |-> 0,
               faults |-> CmdFaults]

CmdNext ==
    \/ \E t \in {"c1"}, u \in Users, k \in Kinds : StartCmd(t, u, k)
    \/ \E t \in {"c1"} : RequireJoin(t)
    \/ \E t \in {"c1"} : CopyLookup(t)
    \/ \E t \in {"c1"} : DeleteLookup(t)
    \/ \E t \in {"c1"} : NewLookup(t)
    \/ \E t \in {"c1"} : CreateDomains(t)
    \/ \E t \in {"c1"} : CreateAccount(t)
    \/ \E t \in {"c1"} : CreateToken(t)
    \/ \E t \in {"c1"} : InboxLookup(t)
    \/ \E t \in {"c1"} : ListAttempt(t)
    \/ \E t \in {"c1"} : GetAttempt(t)
    \/ \E t \in {"c1"} : SourceAttempt(t)
    \/ \E t \in {"c1"} : Deliver(t)
    \/ \E t \in {"c1"} : DeleteAttempt(t)
    \/ \E t \in {"c1"} : Refresh(t)
    \/ \E a \in 1..Len(provider) : Arrive(a)

SpecCmd == CmdInit /\ [][CmdNext]_vars

\* C8: the step in which a handler's gate check completes overwrites the
\* user's verified flag with the outcome, whatever it was before, so the flag
\* always equals the outcome of the user's last completed check; on a false
\* outcome the handler ends there: it has made no provider call and the
\* records, the provider accounts and the delivered mail are as before
GateEnforcement ==
    [][/\ \A u \in Users : USERS'[u] = lastCheck'[u]
       /\ \A t \in CmdTasks :
             (task[t].pc = "gate" /\ task'[t].pc # "gate") =>
                /\ USERS'[task[t].uid] = (IF task'[t].ok THEN "yes" ELSE "no")
                /\ ~task'[t].ok =>
                      /\ task'[t].pc = "done" /\ task'[t].outcome = "Gated"
                      /\ ~task'[t].called /\ task'[t].made = 0
                      /\ UNCHANGED <<State, keys, heap, disk, provider, delivered>>
       /\ \A t \in CmdTasks :
             (task'[t].pc \notin {"idle", "gate", "done"}) => task'[t].ok]_vars

\* a user who passed the gate and provisioned a mailbox, then failed a later
\* check on /delete: the flag went from true to false and the record stayed
GatedWithMailbox ==
    \E t \in CmdTasks :
       /\ task[t].pc = "done" /\ task[t].outcome = "Gated" /\ task[t].kind = "delete"
       /\ State[task[t].uid] # NoBox
       /\ USERS[task[t].uid] = "no"

\* C9: /new past the gate answers AlreadyExists exactly when the user has a
\* record, and then has made no provider call and left the store, the
\* objects, the file and the provider untouched; a /new that creates installs
\* one new object with an empty seen set under the user's key only, also
\* after that user's earlier record was discarded
ProvisionPrecondition ==
    [][\A t \in CmdTasks :
          LET u == task[t].uid
          IN  /\ (task[t].kind = "new" /\ task[t].pc = "lookup" /\ task'[t].pc # "lookup") =>
                    /\ task'[t].outcome = "AlreadyExists" <=> State[u] # NoBox
                    /\ task'[t].outcome = "AlreadyExists" =>
                          /\ task'[t].pc = "done"
                          /\ ~task'[t].called /\ task'[t].made = 0
                          /\ UNCHANGED <<State, keys, heap, disk, provider>>
              /\ (task[t].pc = "token" /\ task'[t].outcome = "Created") =>
                    /\ Len(heap') = Len(heap) + 1
                    /\ State'[u] = Len(heap')
                    /\ heap'[State'[u]].seen = {}
                    /\ \A b \in 1..Len(heap) : heap'[b] = heap[b]
                    /\ \A v \in Users \ {u} : State'[v] = State[v]
                    /\ disk'[u] = heap'[State'[u]]]_vars

\* user 1 provisioned, discarded and provisioned again; user 2 never came
ProvisionedAgain ==
    /\ USERS[2] = "absent"
    /\ Len(heap) = 2
    /\ State[1] = 2
    /\ task["c1"].outcome = "Created"

\* The poller over two users, each provisioned and verified: ticks, arriving
\* mail and provider faults, no commands.
PollTicks == 1
PollMsgs == 2
PollFaults == 2

SecondBox == [address |-> 2, password |-> 2, token |-> 1, seen |-> {}]

TwoMailboxes ==
    /\ State = [u \in Users |-> u]
    /\ keys = <<1, 2>>
    /\ heap = <<FirstBox, SecondBox>>
    /\ USERS = [u \in Users |-> "yes"]
    /\ disk = [u \in Users |-> heap[u]]
    /\ provider = <<[msgs |-> <<>>, issued |-> 1], [msgs |-> <<>>, issued |-> 1]>>
    /\ task = [t \in Tasks |-> IF t = Poller THEN SleepingPoller ELSE IdleTask]
    /\ delivered = <<>>
    /\ lastCheck = [u \in Users |-> "yes"]
    /\ probe = NoProbe

PollInit ==
    /\ TwoMailboxes
    /\ left = [cmds |-> 0, ticks |-> PollTicks, msgs |-> PollMsgs, auth |-> 0,
               faults |-> PollFaults]

PollNextStep ==
    \/ Tick
    \/ ListAttempt(Poller)
    \/ GetAttempt(Poller)
    \/ SourceAttempt(Poller)
    \/ Deliver(Poller)
    \/ DeleteAttempt(Poller)
    \/ Refresh(Poller)
    \/ \E a \in 1..Len(provider) : Arrive(a)

SpecPoll == PollInit /\ [][PollNextStep]_vars

\* C3: when a tick is over, every user who has a record and is verified has
\* had notify_newest run for them in that tick, also the users that come
\* after one whose notify_newest raised
TickIsolation ==
    (task[Poller].pc = "sleep" /\ task[Poller].outcome # "none") =>
        \A u \in Users : Eligible(u) => task[Poller].res[u].outcome # "none"

\* The poller next to one handler: two users with a mailbox each, /start
\* (whose gate check can turn the verified flag off and on) and /delete,
\* poller ticks, arriving mail, provider faults.
EligCmds == 1
EligTicks == 1
EligMsgs == 1
EligFaults == 1

EligInit ==
    /\ TwoMailboxes
    /\ left = [cmds |-> EligCmds, ticks |-> EligTicks, msgs |-> EligMsgs, auth |-> 0,
               faults |-> EligFaults]

EligNext ==
    \/ \E u \in Users, k \in {"start", "delete"} : StartCmd("c1", u, k)
    \/ RequireJoin("c1")
    \/ DeleteLookup("c1")
    \/ Tick
    \/ ListAttempt(Poller)
    \/ GetAttempt(Poller)
    \/ SourceAttempt(Poller)
    \/ Deliver(Poller)
    \/ DeleteAttempt(Poller)
    \/ Refresh(Poller)
    \/ \E a \in 1..Len(provider) : Arrive(a)

SpecElig == EligInit /\ [][EligNext]_vars

\* the user ids the for-loop of the running tick has passed in this step
Passed(p, q) ==
    LET before == IF p.pc = "sleep" THEN keys ELSE p.queue
    IN  {before[i] : i \in 1..(Len(before) - Len(q.queue))}

OneEventPerTick ==
    [][LET p == task[Poller]
           q == task'[Poller]
           listing == provider[heap[p.inbox].address].msgs
       IN  /\ (q.pc = "list" /\ (p.pc = "sleep" \/ q.uid # p.uid))
                 => q.res[q.uid].outcome = "none"
           /\ (p.pc = "send" /\ q # p /\ delivered' # delivered) =>
                 /\ delivered'[p.mid] = delivered[p.mid] + 1
                 /\ p.mid = Head(p.msgs)
                 /\ p.dels = {} /\ p.res[p.uid].outcome = "none"
                 /\ q.pc = "delete" /\ q.uid = p.uid
           /\ (p.pc = "list" /\ q # p /\ q.last.op = "list" /\ q.last.result = "ok"
                 /\ listing # <<>> /\ Head(listing) # NoId
                 /\ Head(listing) \notin heap[p.inbox].seen)
                 => q.pc = "get" /\ q.mid = Head(listing) /\ q.uid = p.uid
           /\ (p.pc \in {"get", "source", "send"} /\ q # p) =>
                 \/ /\ q.uid = p.uid /\ q.mid = p.mid
                    /\ q.pc \in {"get", "source", "send", "delete"}
                 \/ /\ q.res[p.uid].outcome = "Error"
                    /\ left'.faults < left.faults]_vars

\* one tick delivered a new message to each of the two users
BothNotified ==
    /\ task[Poller].res[1].outcome = "NewMail"
    /\ task[Poller].res[2].outcome = "NewMail"
    /\ delivered = <<1, 1>>

\* The poll loop over one mailbox with its scheduling: asyncio.sleep returns
\* and every awaited provider call or send ends (with a response or with an
\* exception), so a step of the poller that can be taken is taken.
LiveTicks == 2
LiveMsgs == 1
LiveFaults == 2

LiveInit ==
    /\ OneMailbox
    /\ left = [cmds |-> 0, ticks |-> LiveTicks, msgs |-> LiveMsgs, auth |-> 0,
               faults |-> LiveFaults]

PollerStep ==
    \/ ListAttempt(Poller)
    \/ GetAttempt(Poller)
    \/ SourceAttempt(Poller)
    \/ Deliver(Poller)
    \/ DeleteAttempt(Poller)
    \/ Refresh(Poller)

LiveNext ==
    \/ Tick
    \/ PollerStep
    \/ Arrive(1)

SpecLive == LiveInit /\ [][LiveNext]_vars /\ WF_vars(Tick) /\ WF_vars(PollerStep)

\* C13: a tick that has started comes to its end, by finishing the list or by
\* an exception, and the loop is then asleep; whenever a further tick is due
\* it starts
PollerLiveness ==
    /\ [](task[Poller].pc # "sleep" => <>(task[Poller].pc = "sleep"))
    /\ \A k \in 1..LiveTicks : [](left.ticks = k => <>(left.ticks < k))

\* the second tick has just started, no mail has arrived and both faults are
\* spent: they made list_messages fail twice in the first tick, which raised
TickAfterRaise ==
    /\ left.ticks = LiveTicks - 2 /\ left.faults = 0 /\ left.msgs = LiveMsgs
    /\ task[Poller].pc = "list" /\ task[Poller].stage = "try1"

\* C14: no step takes an id out of a record's seen set; an id enters it only
\* in the step in which the send of that message's content has succeeded, so
\* every id in a seen set has been delivered; a send that raises adds nothing
SeenOnlyGrows ==
    [][/\ \A b \in 1..Len(heap) :
             /\ heap[b].seen \subseteq heap'[b].seen
             /\ \A m \in heap'[b].seen \ heap[b].seen :
                   delivered'[m] = delivered[m] + 1
       /\ \A b \in 1..Len(heap') : \A m \in heap'[b].seen : delivered'[m] >= 1
       /\ \A t \in FetchTasks :
             (task[t].pc = "send" /\ task'[t] # task[t] /\ delivered' = delivered)
                => \A b \in 1..Len(heap) : heap'[b].seen = heap[b].seen]_vars

\* the send of a new message raised in /inbox: nothing delivered, nothing seen
SendFailedUnmarked ==
    /\ task["c1"].outcome = "Error" /\ task["c1"].at = "send"
    /\ delivered = <<0>>
    /\ heap[State[FetchUser]].seen = {}

\* C15: /inbox and /delete past the gate for a user without a record answer
\* NoMailbox, having made no provider call and changed nothing in the store,
\* the file or the provider; /delete for a user with a record removes that
\* user's key only, leaves the other records as they are and writes the file
NoMailboxPrecondition ==
    [][\A t \in CmdTasks :
          LET p == task[t]
              q == task'[t]
              u == p.uid
          IN  (p.pc = "lookup" /\ p.kind \in {"inbox", "delete"} /\ q.pc # "lookup") =>
                 /\ State[u] = NoBox =>
                       /\ q.pc = "done" /\ q.outcome = "NoMailbox"
                       /\ ~q.called
                       /\ UNCHANGED <<State, keys, heap, disk, provider, delivered>>
                 /\ State[u] # NoBox => q.outcome # "NoMailbox"
                 /\ (p.kind = "delete" /\ State[u] # NoBox) =>
                       /\ q.pc = "done" /\ q.outcome = "Deleted"
                       /\ State'[u] = NoBox
                       /\ \A v \in Users \ {u} : State'[v] = State[v]
                       /\ heap' = heap
                       /\ disk'[u] = NoRec
                       /\ \A v \in Users \ {u} :
                             disk'[v] = IF State[v] = NoBox THEN NoRec ELSE heap[State[v]]
                       /\ Range(keys') = Range(keys) \ {u}]_vars

\* both users had a mailbox and user 1 has deleted theirs
OtherRecordKept ==
    /\ task["c1"].pc = "done" /\ task["c1"].outcome = "Deleted" /\ task["c1"].uid = 1
    /\ State[1] = NoBox /\ State[2] # NoBox
    /\ disk[1] = NoRec /\ disk[2] # NoRec

\* Ticks in succession over one mailbox whose contents only the poller
\* changes: mail arrives before the first tick and not after.
IdemTicks == 2
IdemMsgs == 2
IdemFaults == 2

IdemInit ==
    /\ OneMailbox
    /\ left = [cmds |-> 0, ticks |-> IdemTicks, msgs |-> IdemMsgs, auth |-> 0,
               faults |-> IdemFaults]

IdemNext ==
    \/ Tick
    \/ PollerStep
    \/ left.ticks = IdemTicks /\ Arrive(1)

SpecIdem == IdemInit /\ [][IdemNext]_vars

\* C16: once a tick has delivered for the mailbox (and so ran to its end),
\* a following tick over the same provider contents delivers nothing and
\* leaves the seen set as it was
TickIdempotence ==
    [][(task[Poller].pc = "send" /\ delivered' # delivered)
          => heap[task[Poller].inbox].seen = {}]_vars

\* /delete next to a fetch on the same mailbox: an /inbox handler, a second
\* handler running /delete while the first is in flight, and the poller.
DiscCmds == 2
DiscTicks == 1
DiscMsgs == 1
DiscFaults == 1

DiscInit ==
    /\ OneMailbox
    /\ left = [cmds |-> DiscCmds, ticks |-> DiscTicks, msgs |-> DiscMsgs, auth |-> 0,
               faults |-> DiscFaults]

DiscNext ==
    \/ \E k \in {"inbox", "delete"} : StartCmd("c1", FetchUser, k)
    \/ StartCmd("c2", FetchUser, "delete")
    \/ \E t \in CmdTasks : RequireJoin(t)
    \/ \E t \in CmdTasks : DeleteLookup(t)
    \/ InboxLookup("c1")
    \/ \E t \in FetchTasks : ListAttempt(t)
    \/ \E t \in FetchTasks : GetAttempt(t)
    \/ \E t \in FetchTasks : SourceAttempt(t)
    \/ \E t \in FetchTasks : Deliver(t)
    \/ \E t \in FetchTasks : DeleteAttempt(t)
    \/ \E t \in FetchTasks : Refresh(t)
    \/ Tick
    \/ Arrive(1)

SpecDisc == DiscInit /\ [][DiscNext]_vars

\* C17: a fetch sends a message to the user only while the Inbox object it
\* read is still the user's record, so not after a /delete that completed
\* meanwhile; and a finishing fetch puts no record back for a user who has
\* none, in STATE or in the file
DiscardStopsFetch ==
    [][/\ \A t \in FetchTasks :
             (task[t].pc = "send" /\ task'[t] # task[t] /\ delivered' # delivered)
                => State[task[t].uid] = task[t].inbox
       /\ \A u \in Users :
             (State[u] = NoBox /\ disk[u] = NoRec)
                => State'[u] = NoBox /\ disk'[u] = NoRec]_vars

\* /new in two handlers at once, from an empty store: the second update
\* arrives while the first handler is suspended.
ProvCmds == 2
ProvFaults == 1

EmptyStore ==
    /\ State = [u \in Users |-> NoBox]
    /\ keys = <<>>
    /\ heap = <<>>
    /\ USERS = [u \in Users |-> "absent"]
    /\ disk = [u \in Users |-> NoRec]
    /\ provider = <<>>
    /\ task = [t \in Tasks |-> IF t = Poller THEN SleepingPoller ELSE IdleTask]
    /\ delivered = <<>>
    /\ lastCheck = [u \in Users |-> "absent"]
    /\ probe = NoProbe

ProvInit ==
    /\ EmptyStore
    /\ left = [cmds |-> ProvCmds, ticks |-> 0, msgs |-> 0, auth |-> 0,
               faults |-> ProvFaults]

ProvNext ==
    \/ \E t \in CmdTasks, u \in Users : StartCmd(t, u, "new")
    \/ \E t \in CmdTasks : RequireJoin(t)
    \/ \E t \in CmdTasks : NewLookup(t)
    \/ \E t \in CmdTasks : CreateDomains(t)
    \/ \E t \in CmdTasks : CreateAccount(t)
    \/ \E t \in CmdTasks : CreateToken(t)

SpecProv == ProvInit /\ [][ProvNext]_vars

\* C18: with no /delete in between, a record installed for a user is not
\* replaced by another /new, and every provider mailbox that a /new created
\* and installed is some user's record
OneProvisionWins ==
    [][/\ \A u \in Users :
             (State[u] # NoBox /\ State'[u] # State[u]) => State'[u] = NoBox
       /\ Len(heap') <= Cardinality({u \in Users : State'[u] # NoBox})]_vars

\* C19: a fetch has asked the provider to delete something only if the newest
\* message of its listing is delivered and in seen_message_ids, the call
\* itself having delivered it unless the listing already found it seen; a
\* fetch that ended in an error at the listing, the message fetch or the send
\* has asked for no deletion
NewestNotLost ==
    /\ \A t \in FetchTasks :
          task[t].dels # {}
             => /\ task[t].outcome \in {"NewMail", "NoNewMail"}
                /\ Head(task[t].msgs) \in heap[task[t].inbox].seen
                /\ delivered[Head(task[t].msgs)] >= 1
                /\ task[t].outcome = "NoNewMail" => task[t].kind = "inbox"
    /\ task["c1"].outcome = "Error" => task["c1"].dels = {}
    /\ \A u \in Users :
          LET res == task[Poller].res[u]
          IN  /\ res.dels # {} => /\ res.outcome = "NewMail"
                                  /\ Head(res.msgs) \in heap[State[u]].seen
                                  /\ delivered[Head(res.msgs)] >= 1
              /\ res.outcome = "Error" => res.dels = {}

SendFailedKeptListable ==
    /\ task["c1"].pc = "done" /\ task["c1"].outcome = "Error"
    /\ task["c1"].at = "send" /\ task["c1"].dels = {}
    /\ task["c1"].msgs # <<>>
    /\ Head(task["c1"].msgs) \in Range(provider[heap[task["c1"].inbox].address].msgs)
    /\ Head(task["c1"].msgs) \notin heap[task["c1"].inbox].seen

\* The deletion pass over a listing of several messages: one mailbox, an
\* /inbox command and a poller tick that run one after the other, and
\* provider faults.
SweepCmds == 1
SweepTicks == 1
SweepMsgs == 2
SweepFaults == 2

SweepInit ==
    /\ OneMailbox
    /\ left = [cmds |-> SweepCmds, ticks |-> SweepTicks, msgs |-> SweepMsgs,
               auth |-> 0, faults |-> SweepFaults]

SweepNext ==
    \/ (task[Poller].pc = "sleep" /\ StartCmd("c1", FetchUser, "inbox"))
    \/ RequireJoin("c1")
    \/ InboxLookup("c1")
    \/ \E t \in FetchTasks : ListAttempt(t)
    \/ \E t \in FetchTasks : GetAttempt(t)
    \/ \E t \in FetchTasks : SourceAttempt(t)
    \/ \E t \in FetchTasks : Deliver(t)
    \/ \E t \in FetchTasks : DeleteAttempt(t)
    \/ \E t \in FetchTasks : Refresh(t)
    \/ (task["c1"].pc \in {"idle", "done"} /\ Tick)
    \/ (task["c1"].pc \in {"idle", "done"} /\ task[Poller].pc = "sleep" /\ Arrive(1))

SpecSweep == SweepInit /\ [][SweepNext]_vars

\* C20: a safe_delete of the deletion pass that fails, after the retry or in
\* the refresh, leaves the fetch in the pass with its outcome as it was: the
\* next listed id is requested, and after the last one the record is written
\* to disk, every listed id has been requested and the caller gets that outcome
BestEffortDeletion ==
    [][\A t \in FetchTasks :
          (task[t].pc = "delete" /\ task'[t].last.op = "delete"
             /\ task'[t].last.result = "fail")
          => LET ids == Range(task[t].msgs) \ {NoId}
                 nxt == NextDel(task[t].msgs, task[t].di + 1)
             IN  /\ task'[t].outcome # "TickAborted"
                 /\ nxt <= Len(task[t].msgs)
                       => /\ task'[t].pc = "delete" /\ task'[t].stage = "try1"
                          /\ task'[t].di = nxt
                          /\ task'[t].outcome = task[t].outcome
                 /\ nxt > Len(task[t].msgs)
                       => /\ disk' = Snapshot(State', heap')
                          /\ IF t = Poller
                             THEN /\ task'[t].pc \in {"sleep", "list"}
                                  /\ task'[t].res[task[t].uid].outcome = task[t].outcome
                                  /\ ids \subseteq task'[t].res[task[t].uid].dels
                             ELSE /\ task'[t].pc = "done"
                                  /\ task'[t].outcome = task[t].outcome
                                  /\ ids \subseteq task'[t].dels]_vars

DeletedPastFailure ==
    \E t \in FetchTasks :
        /\ task[t].pc = "delete" /\ task[t].di = 2 /\ task[t].stage = "try1"
        /\ task[t].last.op = "delete" /\ task[t].last.result = "fail"
        /\ task[t].outcome \in {"NewMail", "NoNewMail"}

\* C21: an /inbox call and a notify_newest call that both got the same
\* listing with its newest id already in seen_message_ids came to the same
\* outcome class and asked the provider for the same deletions
CommandPollerAgree ==
    \A u \in Users :
        LET res == task[Poller].res[u]
            cmd == task["c1"]
        IN  (/\ cmd.pc = "done" /\ cmd.uid = u /\ cmd.kind = "inbox"
             /\ cmd.outcome = "NoNewMail" /\ res.outcome = "NoNewMail"
             /\ cmd.msgs = res.msgs)
            => cmd.dels = res.dels

\* C22: create_inbox makes its three requests once each, in order; a step of
\* /new in which one of them fails ends the handler with an error, with the
\* request not repeated and with STATE, the Inbox objects and the state file
\* as they were
FailedProvisionNoRecord ==
    [][\A t \in CmdTasks :
          LET stages == <<"domains", "accounts", "token">>
          IN  \A i \in 1..3 :
                (task[t].pc = stages[i] /\ task'[t] # task[t])
                => /\ task'[t].made = i
                   /\ task'[t].pc \in {"done"} \cup (IF i < 3 THEN {stages[i + 1]} ELSE {})
                   /\ left'.faults < left.faults
                         => /\ task'[t].pc = "done" /\ task'[t].outcome = "Error"
                            /\ task'[t].at = stages[i]
                            /\ State' = State /\ keys' = keys /\ heap' = heap
                            /\ disk' = disk
                            /\ State[task[t].uid] = NoBox /\ disk[task[t].uid] = NoRec]_vars

TokenFailedNoRecord ==
    /\ task["c1"].pc = "done" /\ task["c1"].kind = "new"
    /\ task["c1"].outcome = "Error" /\ task["c1"].at = "token"
    /\ task["c1"].made = 3
    /\ Len(provider) >= 1
    /\ State[task["c1"].uid] = NoBox /\ disk[task["c1"].uid] = NoRec

\* C23: no step changes the address or the password of an Inbox object; the
\* token changes only in the refresh_token of a safe_get / safe_delete whose
\* first request failed, to the token the provider has just issued, and that
\* step leaves the object's seen_message_ids as they were
CredentialFrame ==
    [][\A i \in 1..Len(heap) :
          /\ i <= Len(heap')
          /\ heap'[i].address = heap[i].address
          /\ heap'[i].password = heap[i].password
          /\ heap'[i].token # heap[i].token
                => /\ \E t \in FetchTasks :
                         /\ task[t].inbox = i /\ task[t].stage = "refresh"
                         /\ task[t].err1 # "none" /\ task[t].att = 1
                         /\ task'[t].stage = "try2"
                   /\ heap'[i].token = provider'[heap[i].address].issued
                   /\ heap'[i].seen = heap[i].seen]_vars

TokenReplaced ==
    \E t \in FetchTasks :
        /\ task[t].stage = "try2" /\ task[t].ref = 1
        /\ task[t].inbox # NoBox
        /\ heap[task[t].inbox].token = 2
        /\ heap[task[t].inbox].address = 1 /\ heap[task[t].inbox].password = 1
        /\ heap[task[t].inbox].seen # {}

====
